---- MODULE Spec2Model ----
(***************************************************************************)
(* Search / history / favorites controller of the dictionary web app       *)
(* (src/src/App.tsx).  A JavaScript string is a sequence of one-symbol      *)
(* strings; `null` is None and a present value v is Some(v).                *)
(* The file holds two variants of the component (lines 1-721 and 723-1213)  *)
(* whose controller logic is the same; the model follows the first.         *)
(***************************************************************************)
EXTENDS Integers, Sequences, FiniteSets, TLC

\* ------------------------------------------------------------------ bounds
MaxPending == 2      \* lookups that may be in flight at the same time
MaxTime    == 1      \* largest value the clock (Date.now()) takes
MaxClick   == 2      \* sidebar rows, from the top, that the user clicks
MaxTimers  == 2      \* copy timeouts that may be pending at the same time
MaxSyn     == 2      \* longest synonym list of a meaning or a definition
MaxPhonetics == 2    \* longest list of phonetics of an entry

\* ------------------------------------------------------- program constants
HistoryCap == 50     \* .slice(0, 50)

\* ---------------------------------------------------------------- options
None    == [some |-> FALSE]
Some(v) == [some |-> TRUE, val |-> v]

\* ---------------------------------------------------------------- strings
Whitespace == {" "}

toLowerChar(c) ==
  CASE c = "R" -> "r"
    [] c = "U" -> "u"
    [] OTHER   -> c

\* String.prototype.toLowerCase
toLowerCase(s) == [i \in 1..Len(s) |-> toLowerChar(s[i])]

RECURSIVE trimStart(_)
trimStart(s) ==
  IF s # <<>> /\ Head(s) \in Whitespace THEN trimStart(Tail(s)) ELSE s

RECURSIVE trimEnd(_)
trimEnd(s) ==
  IF s # <<>> /\ s[Len(s)] \in Whitespace
    THEN trimEnd(SubSeq(s, 1, Len(s) - 1))
    ELSE s

\* String.prototype.trim
trim(s) == trimEnd(trimStart(s))

encodeChar(c) == IF c = " " THEN <<"%", "2", "0">> ELSE <<c>>

\* encodeURIComponent on the symbols of the model's alphabet
RECURSIVE encodeURIComponent(_)
encodeURIComponent(s) ==
  IF s = <<>> THEN <<>>
  ELSE encodeChar(Head(s)) \o encodeURIComponent(Tail(s))

\* s occurs in m as a contiguous run of symbols
Contains(m, s) ==
  \E i \in 0..(Len(m) - Len(s)) : SubSeq(m, i + 1, i + Len(s)) = s

\* the message built from the lower-cased word
notFoundMessageLowered(word) ==
  <<"\"">> \o toLowerCase(word) \o <<"\"", " not found in dictionary">>

\* `"${word}" not found in dictionary`
notFoundMessage(word) == <<"\"">> \o word \o <<"\"", " not found in dictionary">>

\* ------------------------------------------------------------------ inputs
\* what the user types into the search box
Terms == { <<>>, <<" ">>, <<"r">>, <<"R">>, <<"u">> }

Tabs == {"main", "history", "favorites"}

\* ------------------------------------------------- the remote lookup service
EntryR ==
  [ word      |-> <<"r">>,
    phonetics |-> << [text |-> <<"/r/">>, audio |-> <<>>],
                     [text |-> <<"/R/">>, audio |-> <<"r.mp3">>] >>,
    meanings  |-> << [ partOfSpeech |-> "noun",
                       definitions  |-> << [definition |-> <<"r-noun-1">>, synonyms |-> << <<"u">> >>],
                                           [definition |-> <<"r-noun-2">>, synonyms |-> <<>>] >>,
                       synonyms     |-> << <<"u">>, <<"R">> >> ],
                     [ partOfSpeech |-> "verb",
                       definitions  |-> << [definition |-> <<"r-verb-1">>, synonyms |-> <<>>] >>,
                       synonyms     |-> <<>> ] >> ]

EntryU ==
  [ word      |-> <<"u">>,
    phonetics |-> <<>>,
    meanings  |-> << [ partOfSpeech |-> "noun",
                       definitions  |-> << [definition |-> <<"u-noun-1">>, synonyms |-> <<>>] >>,
                       synonyms     |-> <<>> ] >> ]

\* body of a 2xx response for GET .../entries/en/<path>; the body for "e"
\* is a list without entries, that for "m" an entry without meanings, that
\* for "d" an entry whose meaning has no definitions
ApiBody(path) ==
  CASE path = <<"r">> -> << EntryR >>
    [] path = <<"u">> -> << EntryU >>
    [] path = <<"e">> -> << >>
    [] path = <<"m">> -> << [word |-> <<"m">>, phonetics |-> <<>>, meanings |-> <<>>] >>
    [] path = <<"d">> -> << [word |-> <<"d">>, phonetics |-> <<>>,
                             meanings |-> << [partOfSpeech |-> "noun",
                                              definitions  |-> <<>>,
                                              synonyms     |-> <<>>] >>] >>
    [] OTHER          -> << [word |-> path, phonetics |-> <<>>,
                             meanings |-> << [partOfSpeech |-> "noun",
                                              definitions |-> << [definition |-> <<"def">>, synonyms |-> <<>>] >>,
                                              synonyms |-> <<>>] >>] >>

\* how a lookup can end: 2xx and a parsed body, a non-2xx status,
\* fetch() rejecting, res.json() rejecting
Outcomes == {"ok", "status", "transport", "parse"}

\* ------------------------------------------------------------------- JSON
Digits == <<"0", "1", "2", "3", "4", "5", "6", "7", "8", "9">>

isDigit(c) == \E d \in 1..10 : Digits[d] = c

digitValue(c) == (CHOOSE d \in 1..10 : Digits[d] = c) - 1

\* a number as JSON.stringify prints it
RECURSIVE numberToText(_)
numberToText(n) ==
  IF n < 10 THEN << Digits[n + 1] >>
  ELSE numberToText(n \div 10) \o << Digits[(n % 10) + 1] >>

\* a string as JSON.stringify prints it (no symbol of the alphabet needs escaping)
stringToText(s) == <<"\"">> \o s \o <<"\"">>

historyItemToText(h) ==
  <<"{">> \o stringToText(<<"word">>) \o <<":">> \o stringToText(h.word)
  \o <<",">> \o stringToText(<<"timestamp">>) \o <<":">> \o numberToText(h.timestamp)
  \o <<"}">>

favoriteItemToText(f) ==
  <<"{">> \o stringToText(<<"word">>) \o <<":">> \o stringToText(f.word)
  \o <<",">> \o stringToText(<<"definition">>) \o <<":">> \o stringToText(f.definition)
  \o <<",">> \o stringToText(<<"timestamp">>) \o <<":">> \o numberToText(f.timestamp)
  \o <<"}">>

\* the elements of an array, separated by commas
RECURSIVE joinTexts(_)
joinTexts(texts) ==
  IF texts = <<>> THEN <<>>
  ELSE IF Len(texts) = 1 THEN texts[1]
  ELSE texts[1] \o <<",">> \o joinTexts(Tail(texts))

\* JSON.stringify(history)
stringifyHistory(list) ==
  <<"[">> \o joinTexts([i \in 1..Len(list) |-> historyItemToText(list[i])]) \o <<"]">>

\* JSON.stringify(favorites)
stringifyFavorites(list) ==
  <<"[">> \o joinTexts([i \in 1..Len(list) |-> favoriteItemToText(list[i])]) \o <<"]">>

ParseFail == [ok |-> FALSE, val |-> <<>>, next |-> 0]

tokenAt(text, p) == IF p \in 1..Len(text) THEN text[p] ELSE "<eof>"

\* "...": the symbols up to the closing quote
parseString(text, p) ==
  IF tokenAt(text, p) # "\"" THEN ParseFail
  ELSE LET closing == { q \in (p + 1)..Len(text) : text[q] = "\"" }
       IN  IF closing = {} THEN ParseFail
           ELSE LET q == CHOOSE c \in closing : \A d \in closing : c <= d
                IN  [ok |-> TRUE, val |-> SubSeq(text, p + 1, q - 1), next |-> q + 1]

RECURSIVE parseDigits(_, _, _)
parseDigits(text, p, acc) ==
  IF isDigit(tokenAt(text, p))
    THEN parseDigits(text, p + 1, acc * 10 + digitValue(text[p]))
    ELSE [ok |-> TRUE, val |-> acc, next |-> p]

parseNumber(text, p) ==
  IF isDigit(tokenAt(text, p)) THEN parseDigits(text, p, 0) ELSE ParseFail

parseValue(text, p) ==
  IF tokenAt(text, p) = "\"" THEN parseString(text, p) ELSE parseNumber(text, p)

\* "key":value pairs up to the closing brace; a later key wins
RECURSIVE parseMembers(_, _, _)
parseMembers(text, p, acc) ==
  LET k == parseString(text, p) IN
  IF ~k.ok \/ Len(k.val) # 1 \/ tokenAt(text, k.next) # ":" THEN ParseFail
  ELSE LET v   == parseValue(text, k.next + 1) IN
       IF ~v.ok THEN ParseFail
       ELSE LET obj == (k.val[1] :> v.val) @@ acc IN
            CASE tokenAt(text, v.next) = "," -> parseMembers(text, v.next + 1, obj)
              [] tokenAt(text, v.next) = "}" -> [ok |-> TRUE, val |-> obj, next |-> v.next + 1]
              [] OTHER                       -> ParseFail

parseObject(text, p) ==
  IF tokenAt(text, p) # "{" THEN ParseFail
  ELSE IF tokenAt(text, p + 1) = "}"
    THEN [ok |-> TRUE, val |-> <<>>, next |-> p + 2]
    ELSE parseMembers(text, p + 1, <<>>)

RECURSIVE parseElements(_, _, _)
parseElements(text, p, acc) ==
  LET o == parseObject(text, p) IN
  IF ~o.ok THEN ParseFail
  ELSE CASE tokenAt(text, o.next) = "," -> parseElements(text, o.next + 1, Append(acc, o.val))
         [] tokenAt(text, o.next) = "]" -> [ok |-> TRUE, val |-> Append(acc, o.val), next |-> o.next + 1]
         [] OTHER                       -> ParseFail

\* JSON.parse of an array of flat objects; ok is FALSE where JSON.parse throws
JSONparse(text) ==
  IF tokenAt(text, 1) # "[" THEN ParseFail
  ELSE LET r == IF tokenAt(text, 2) = "]"
                  THEN [ok |-> TRUE, val |-> <<>>, next |-> 3]
                  ELSE parseElements(text, 2, <<>>)
       IN  IF r.ok /\ r.next = Len(text) + 1 THEN r ELSE ParseFail

\* ------------------------------------------------------------------ state
VARIABLES
  value,                 \* useState<string>("")                  text of the search box
  data,                  \* useState<DictionaryEntry[] | null>    entries
  err,                   \* useState<string | null>               error
  loading,               \* useState(false)                       isLoading
  history,               \* useState<HistoryItem[]>([])
  favorites,             \* useState<FavoriteItem[]>([])
  mobileTab,             \* useState("main")                      active panel
  selectedMeaningIndex,  \* useState(0)
  inflight,              \* searchWord calls suspended at their await, in issue order
  store,                 \* localStorage: the "history" and "favorites" keys
  queued,                \* setHistory/setFavorites calls of the mount effect, not yet rendered
  phase,                 \* "mounted" | "loaded" | "running" | "crashed"
  now,                   \* Date.now()
  copiedText,            \* useState<string | null>(null)       the copy marker
  timers,                \* setTimeout callbacks of copyToClipboard not yet run, oldest first
  autoPlayAudio,         \* useState(false)                     the autoplay preference
  audioTimers,           \* results of the setTimeout(() => playAudio(result), 300) not yet run
  last                   \* the handler that ran last, with the collections it started from

vars == << value, data, err, loading, history, favorites, mobileTab,
           selectedMeaningIndex, inflight, store, queued, phase, now,
           copiedText, timers, autoPlayAudio, audioTimers, last >>

\* everything the component renders from
viewState == << value, data, err, loading, history, favorites, mobileTab, selectedMeaningIndex >>

\* last: a handler that is not part of a search
OtherEvent == [ op |-> "other", word |-> <<>>, outcome |-> "",
                history |-> <<>>, favorites |-> <<>>, index |-> 0,
                earlier |-> <<>>, store |-> [history |-> None, favorites |-> None],
                entries |-> None, afterClear |-> FALSE, threw |-> FALSE ]

\* last: searchWord(word) was called
CallEvent(word) == [ OtherEvent EXCEPT !.op = "searchWord", !.word = word ]

\* last: the call for word resumed with outcome, from these collections and
\* this selected meaning, right after a clear of the history or not
ResumeEvent(word, outcome) ==
  [ OtherEvent EXCEPT !.op = "resume", !.word = word, !.outcome = outcome,
                      !.history = history, !.favorites = favorites,
                      !.index = selectedMeaningIndex,
                      !.afterClear = (last.op = "clearHistory") ]

\* last: the Clear button of the history sidebar
ClearEvent == [ OtherEvent EXCEPT !.op = "clearHistory" ]

\* last: a startup step ran, over this content of localStorage at mount
StartupEvent(op, st) == [ OtherEvent EXCEPT !.op = op, !.store = st ]

\* last: the page was closed with these collections on screen
RestartEvent ==
  [ StartupEvent("restart", store) EXCEPT !.history = history, !.favorites = favorites ]

\* last: toggleFavorite ran on these favorites, to its end or to a TypeError;
\* a call that directly follows another one also carries the favorites that
\* one started from
ToggleEvent ==
  LET second == last.op = "toggleFavorite" /\ last.outcome = "first" IN
  [ OtherEvent EXCEPT !.op = "toggleFavorite",
                      !.outcome = IF second THEN "second" ELSE "first",
                      !.favorites = favorites,
                      !.earlier = IF second THEN last.favorites ELSE <<>>,
                      !.threw = IF data.some /\ Len(data.val) >= 1
                                  /\ \A k \in 1..Len(favorites) : favorites[k].word # data.val[1].word
                                THEN \/ Len(data.val[1].meanings) = 0
                                     \/ Len(data.val[1].meanings[1].definitions) = 0
                                ELSE FALSE ]

\* the component as first rendered, over whatever localStorage holds
Mounted(st, clock) ==
  /\ value = <<>>
  /\ data = None
  /\ err = None
  /\ loading = FALSE
  /\ history = <<>>
  /\ favorites = <<>>
  /\ mobileTab = "main"
  /\ selectedMeaningIndex = 0
  /\ inflight = <<>>
  /\ store = st
  /\ queued = [history |-> None, favorites |-> None]
  /\ phase = "mounted"
  /\ now = clock
  /\ copiedText = None
  /\ timers = <<>>
  /\ autoPlayAudio = FALSE
  /\ audioTimers = <<>>
  /\ last = OtherEvent

\* localStorage before the first visit, and as an earlier visit left it with
\* one favorite
EmptyStore == [history |-> None, favorites |-> None]

VisitedStore ==
  [ history   |-> Some(stringifyHistory(<<>>)),
    favorites |-> Some(stringifyFavorites(
                    << [word |-> <<"r">>, definition |-> <<"r-noun-1">>, timestamp |-> 0] >>)) ]

Init == \E st \in {EmptyStore, VisitedStore} : Mounted(st, 0)

\* a history of n words searched at time 0, as earlier visits leave it
fillerHistory(n) ==
  [ k \in 1..n |-> [word |-> <<"w">> \o numberToText(k), timestamp |-> 0] ]

FilledStore(n) ==
  [ history   |-> Some(stringifyHistory(fillerHistory(n))),
    favorites |-> VisitedStore.favorites ]

\* the first render over a history one record short of the cap, or at it
InitCap == \E n \in {HistoryCap - 1, HistoryCap} : Mounted(FilledStore(n), 0)

\* ------------------------------------------------------------ the clock
tick ==
  /\ now < MaxTime
  /\ now' = now + 1
  /\ last' = OtherEvent
  /\ UNCHANGED << viewState, inflight, store, queued, phase,
                  copiedText, timers, autoPlayAudio, audioTimers >>

\* ------------------------------------------------------------- startup
\* localStorage.getItem(key) is truthy: present and not the empty string
truthy(item) == item.some /\ item.val # <<>>

\* the effects of the first render, in declaration order: the load effect
\* reads both keys and queues what it parsed, then the persist effects
\* write the collections of that first render.  JSON.parse is not guarded:
\* where it throws, the effects after it do not run and the component is
\* unmounted.
mountEffects ==
  /\ phase = "mounted"
  /\ LET h == IF truthy(store.history) THEN JSONparse(store.history.val) ELSE ParseFail
         f == IF truthy(store.favorites) THEN JSONparse(store.favorites.val) ELSE ParseFail
         hThrows == truthy(store.history) /\ ~h.ok
         fThrows == ~hThrows /\ truthy(store.favorites) /\ ~f.ok
     IN  /\ queued' = [ history   |-> IF truthy(store.history) /\ h.ok THEN Some(h.val) ELSE None,
                        favorites |-> IF ~hThrows /\ truthy(store.favorites) /\ f.ok
                                        THEN Some(f.val) ELSE None ]
         /\ phase' = IF hThrows \/ fThrows THEN "crashed" ELSE "loaded"
         /\ store' = IF hThrows \/ fThrows THEN store
                     ELSE [ history   |-> Some(stringifyHistory(history)),
                            favorites |-> Some(stringifyFavorites(favorites)) ]
  /\ last' = IF last.op = "restart" THEN [last EXCEPT !.op = "mountEffects"]
                                    ELSE StartupEvent("mountEffects", store)
  /\ UNCHANGED << viewState, inflight, now,
                  copiedText, timers, autoPlayAudio, audioTimers >>

\* the render that follows the load effect, without its persist effects
rerenderNoPersist ==
  /\ phase = "loaded"
  /\ history' = IF queued.history.some THEN queued.history.val ELSE history
  /\ favorites' = IF queued.favorites.some THEN queued.favorites.val ELSE favorites
  /\ queued' = [history |-> None, favorites |-> None]
  /\ phase' = "running"
  /\ last' = IF last.op = "mountEffects" THEN [last EXCEPT !.op = "rerender"]
                                         ELSE OtherEvent
  /\ UNCHANGED << value, data, err, loading, mobileTab, selectedMeaningIndex, inflight, now,
                  store, copiedText, timers, autoPlayAudio, audioTimers >>

\* the render that follows the load effect, and the persist effects of the
\* collections it changed
rerender ==
  /\ phase = "loaded"
  /\ history' = IF queued.history.some THEN queued.history.val ELSE history
  /\ favorites' = IF queued.favorites.some THEN queued.favorites.val ELSE favorites
  /\ store' = [ history   |-> IF queued.history.some
                                THEN Some(stringifyHistory(history')) ELSE store.history,
                favorites |-> IF queued.favorites.some
                                THEN Some(stringifyFavorites(favorites')) ELSE store.favorites ]
  /\ queued' = [history |-> None, favorites |-> None]
  /\ phase' = "running"
  /\ last' = IF last.op = "mountEffects" THEN [last EXCEPT !.op = "rerender"]
                                         ELSE OtherEvent
  /\ UNCHANGED << value, data, err, loading, mobileTab, selectedMeaningIndex, inflight, now,
                  copiedText, timers, autoPlayAudio, audioTimers >>

\* the page is closed and opened again: only localStorage survives
restart ==
  /\ phase # "mounted"
  /\ value' = <<>>
  /\ data' = None
  /\ err' = None
  /\ loading' = FALSE
  /\ history' = <<>>
  /\ favorites' = <<>>
  /\ mobileTab' = "main"
  /\ selectedMeaningIndex' = 0
  /\ inflight' = <<>>
  /\ queued' = [history |-> None, favorites |-> None]
  /\ phase' = "mounted"
  /\ copiedText' = None
  /\ timers' = <<>>
  /\ autoPlayAudio' = FALSE
  /\ audioTimers' = <<>>
  /\ last' = RestartEvent
  /\ UNCHANGED << store, now >>

\* --------------------------------------------------------------- search
\* the early return without trim()
isBlankEmptyOnly(word) == word = <<>>

isBlank(word) == trim(word) = <<>>

\* searchWord up to its await: the early return, then setLoading(true),
\* setErr(null), and the request for the lower-cased, encoded word.  The
\* call keeps the autoPlayAudio of the render it was made from.
searchWordCore(word) ==
  IF isBlank(word)
    THEN UNCHANGED << loading, err, inflight >>
    ELSE /\ Len(inflight) < MaxPending
         /\ loading' = TRUE
         /\ err' = None
         /\ inflight' = Append(inflight, [word |-> word, autoPlayAudio |-> autoPlayAudio])

\* setMobileTab("main") of searchWord
searchWordTab(word) ==
  mobileTab' = IF isBlank(word) THEN mobileTab ELSE "main"

searchWord(word) ==
  /\ searchWordCore(word)
  /\ searchWordTab(word)
  /\ last' = CallEvent(word)

setValue(t) ==
  /\ phase = "running"
  /\ t # value
  /\ value' = t
  /\ last' = OtherEvent
  /\ UNCHANGED << data, err, loading, history, favorites, mobileTab,
                  selectedMeaningIndex, inflight, store, queued, phase, now,
                  copiedText, timers, autoPlayAudio, audioTimers >>

\* the Search button, disabled while loading
handleSearch ==
  /\ phase = "running"
  /\ ~loading
  /\ searchWord(value)
  /\ UNCHANGED << value, data, history, favorites, selectedMeaningIndex,
                  store, queued, phase, now,
                  copiedText, timers, autoPlayAudio, audioTimers >>

\* Enter in the search box
handleKeyPress ==
  /\ phase = "running"
  /\ searchWord(value)
  /\ UNCHANGED << value, data, history, favorites, selectedMeaningIndex,
                  store, queued, phase, now,
                  copiedText, timers, autoPlayAudio, audioTimers >>

\* a row of the history sidebar
historyItemClick(i) ==
  /\ phase = "running"
  /\ i \in 1..Len(history)
  /\ value' = history[i].word
  /\ searchWordCore(history[i].word)
  /\ mobileTab' = "main"
  /\ last' = CallEvent(history[i].word)
  /\ UNCHANGED << data, history, favorites, selectedMeaningIndex,
                  store, queued, phase, now,
                  copiedText, timers, autoPlayAudio, audioTimers >>

\* a row of the favorites sidebar
favoriteItemClick(i) ==
  /\ phase = "running"
  /\ i \in 1..Len(favorites)
  /\ value' = favorites[i].word
  /\ searchWordCore(favorites[i].word)
  /\ mobileTab' = "main"
  /\ last' = CallEvent(favorites[i].word)
  /\ UNCHANGED << data, history, favorites, selectedMeaningIndex,
                  store, queued, phase, now,
                  copiedText, timers, autoPlayAudio, audioTimers >>

\* the request path of a call
requestPath(word) == encodeURIComponent(toLowerCase(word))

\* the updater filtering on the word as typed
historyUpdaterExactFilter(prev, word, timestamp) ==
  LET newHistoryItem == [word |-> toLowerCase(word), timestamp |-> timestamp]
      filtered       == SelectSeq(prev, LAMBDA item : item.word # word)
      all            == <<newHistoryItem>> \o filtered
  IN  SubSeq(all, 1, IF Len(all) < 50 THEN Len(all) ELSE 50)

\* the updater recording the word as typed
historyUpdaterTyped(prev, word, timestamp) ==
  LET newHistoryItem == [word |-> word, timestamp |-> timestamp]
      filtered       == SelectSeq(prev, LAMBDA item : item.word # toLowerCase(word))
      all            == <<newHistoryItem>> \o filtered
  IN  SubSeq(all, 1, IF Len(all) < 50 THEN Len(all) ELSE 50)

\* the updater without slice()
historyUpdaterNoSlice(prev, word, timestamp) ==
  LET newHistoryItem == [word |-> toLowerCase(word), timestamp |-> timestamp]
      filtered       == SelectSeq(prev, LAMBDA item : item.word # toLowerCase(word))
  IN  <<newHistoryItem>> \o filtered

\* the updater with slice(0, 49)
historyUpdaterShort(prev, word, timestamp) ==
  LET newHistoryItem == [word |-> toLowerCase(word), timestamp |-> timestamp]
      filtered       == SelectSeq(prev, LAMBDA item : item.word # toLowerCase(word))
      all            == <<newHistoryItem>> \o filtered
  IN  SubSeq(all, 1, IF Len(all) < 49 THEN Len(all) ELSE 49)

\* prev => [newHistoryItem, ...prev.filter(item => item.word !== word.toLowerCase())].slice(0, 50)
historyUpdater(prev, word, timestamp) ==
  LET newHistoryItem == [word |-> toLowerCase(word), timestamp |-> timestamp]
      filtered       == SelectSeq(prev, LAMBDA item : item.word # toLowerCase(word))
      all            == <<newHistoryItem>> \o filtered
  IN  SubSeq(all, 1, IF Len(all) < HistoryCap THEN Len(all) ELSE HistoryCap)

\* the calls still suspended once call i has resumed
remaining(i) ==
  [ j \in 1..(Len(inflight) - 1) |-> IF j < i THEN inflight[j] ELSE inflight[j + 1] ]

\* the success path with setLoading(false) left to the catch block
searchWordSuccessNoFinally(i) ==
  LET word == inflight[i].word IN
  /\ data' = Some(ApiBody(requestPath(word)))
  /\ selectedMeaningIndex' = 0
  /\ history' = historyUpdater(history, word, now)
  /\ store' = [store EXCEPT !.history = Some(stringifyHistory(history'))]
  /\ UNCHANGED << loading, err, favorites >>

\* the success path without setSelectedMeaningIndex(0)
searchWordSuccessKeepIndex(i) ==
  LET word == inflight[i].word IN
  /\ data' = Some(ApiBody(requestPath(word)))
  /\ history' = historyUpdater(history, word, now)
  /\ store' = [store EXCEPT !.history = Some(stringifyHistory(history'))]
  /\ loading' = FALSE
  /\ UNCHANGED << err, favorites, selectedMeaningIndex >>

\* searchWord from its await to its end, for a 2xx response with a body
searchWordSuccess(i) ==
  LET word == inflight[i].word IN
  /\ data' = Some(ApiBody(requestPath(word)))
  /\ selectedMeaningIndex' = 0
  /\ history' = historyUpdater(history, word, now)
  /\ store' = [store EXCEPT !.history = Some(stringifyHistory(history'))]
  /\ loading' = FALSE
  /\ UNCHANGED << err, favorites >>

\* the catch path without the finally block
searchWordFailureNoFinally(i) ==
  LET word == inflight[i].word IN
  /\ data' = None
  /\ err' = Some(notFoundMessage(word))
  /\ UNCHANGED << loading, selectedMeaningIndex, history, favorites, store >>

\* searchWord from its await to its end through catch
searchWordFailure(i) ==
  LET word == inflight[i].word IN
  /\ data' = None
  /\ err' = Some(notFoundMessage(word))
  /\ loading' = FALSE
  /\ UNCHANGED << selectedMeaningIndex, history, favorites, store >>

\* if (autoPlayAudio) setTimeout(() => playAudio(result), 300), on the
\* success path, with the autoPlayAudio of the call's closure
scheduleAutoplay(i, outcome) ==
  IF outcome = "ok" /\ inflight[i].autoPlayAudio
    THEN /\ Len(audioTimers) < MaxTimers
         /\ audioTimers' = Append(audioTimers, ApiBody(requestPath(inflight[i].word)))
    ELSE UNCHANGED audioTimers

\* rendering entries throws a TypeError, which unmounts the component:
\* data[0].meanings[selectedMeaningIndex].partOfSpeech with no such meaning
renderThrows(entries, index) ==
  /\ entries.some
  /\ Len(entries.val) >= 1
  /\ index >= Len(entries.val[1].meanings)

\* call i resumes with the outcome of its lookup, and the component renders
\* what it set
searchWordResume(i, outcome) ==
  /\ phase = "running"
  /\ i \in 1..Len(inflight)
  /\ IF outcome = "ok" THEN searchWordSuccess(i) ELSE searchWordFailure(i)
  /\ scheduleAutoplay(i, outcome)
  /\ inflight' = remaining(i)
  /\ phase' = IF renderThrows(data', selectedMeaningIndex') THEN "crashed" ELSE phase
  /\ last' = ResumeEvent(inflight[i].word, outcome)
  /\ UNCHANGED << value, mobileTab, queued, now,
                  copiedText, timers, autoPlayAudio >>

\* ------------------------------------------------------------ favorites
hasEntry == data.some /\ Len(data.val) >= 1

\* isFavorite looking at the newest favorite only
isFavoriteFirstOnly ==
  /\ hasEntry
  /\ favorites # <<>>
  /\ favorites[1].word = data.val[1].word

isFavorite ==
  /\ hasEntry
  /\ \E k \in 1..Len(favorites) : favorites[k].word = data.val[1].word

\* prev => prev.filter(f => f.word !== word)
withoutFavorite(prev, word) == SelectSeq(prev, LAMBDA f : f.word # word)

\* reading meanings[0].definitions[0].definition throws a TypeError
firstDefinitionThrows ==
  \/ Len(data.val[1].meanings) = 0
  \/ Len(data.val[1].meanings[1].definitions) = 0

\* toggleFavorite refreshing the definition of a word already saved
toggleFavoriteRefresh ==
  /\ phase = "running"
  /\ IF ~hasEntry \/ firstDefinitionThrows THEN UNCHANGED << favorites, store >>
     ELSE LET fresh == [ word       |-> data.val[1].word,
                         definition |-> data.val[1].meanings[1].definitions[1].definition,
                         timestamp  |-> now ]
          IN  /\ favorites' =
                   IF isFavorite
                     THEN [ k \in 1..Len(favorites) |->
                              IF favorites[k].word = fresh.word THEN fresh ELSE favorites[k] ]
                     ELSE <<fresh>> \o favorites
              /\ store' = [store EXCEPT !.favorites = Some(stringifyFavorites(favorites'))]
  /\ last' = ToggleEvent
  /\ UNCHANGED << value, data, err, loading, history, mobileTab,
                  selectedMeaningIndex, inflight, queued, phase, now,
                  copiedText, timers, autoPlayAudio, audioTimers >>

\* toggleFavorite adding the new record at the end of the list
toggleFavoriteAppend ==
  /\ phase = "running"
  /\ IF ~hasEntry THEN UNCHANGED << favorites, store >>
     ELSE IF isFavorite
       THEN /\ favorites' = withoutFavorite(favorites, data.val[1].word)
            /\ store' = [store EXCEPT !.favorites = Some(stringifyFavorites(favorites'))]
     ELSE IF firstDefinitionThrows THEN UNCHANGED << favorites, store >>
     ELSE /\ favorites' =
               favorites \o
               << [ word       |-> data.val[1].word,
                    definition |-> data.val[1].meanings[1].definitions[1].definition,
                    timestamp  |-> now ] >>
          /\ store' = [store EXCEPT !.favorites = Some(stringifyFavorites(favorites'))]
  /\ last' = ToggleEvent
  /\ UNCHANGED << value, data, err, loading, history, mobileTab,
                  selectedMeaningIndex, inflight, queued, phase, now,
                  copiedText, timers, autoPlayAudio, audioTimers >>

\* the favorite button of the entry on screen; the function returns at once
\* when there is no entry
toggleFavorite ==
  /\ phase = "running"
  /\ IF ~hasEntry THEN UNCHANGED << favorites, store >>
     ELSE IF isFavorite
       THEN /\ favorites' = withoutFavorite(favorites, data.val[1].word)
            /\ store' = [store EXCEPT !.favorites = Some(stringifyFavorites(favorites'))]
     ELSE IF firstDefinitionThrows THEN UNCHANGED << favorites, store >>
     ELSE /\ favorites' =
               << [ word       |-> data.val[1].word,
                    definition |-> data.val[1].meanings[1].definitions[1].definition,
                    timestamp  |-> now ] >> \o favorites
          /\ store' = [store EXCEPT !.favorites = Some(stringifyFavorites(favorites'))]
  /\ last' = ToggleEvent
  /\ UNCHANGED << value, data, err, loading, history, mobileTab,
                  selectedMeaningIndex, inflight, queued, phase, now,
                  copiedText, timers, autoPlayAudio, audioTimers >>

\* the remove button of a row of the favorites sidebar
removeFromFavorites(i) ==
  /\ phase = "running"
  /\ i \in 1..Len(favorites)
  /\ favorites' = withoutFavorite(favorites, favorites[i].word)
  /\ store' = [store EXCEPT !.favorites = Some(stringifyFavorites(favorites'))]
  /\ last' = OtherEvent
  /\ UNCHANGED << value, data, err, loading, history, mobileTab,
                  selectedMeaningIndex, inflight, queued, phase, now,
                  copiedText, timers, autoPlayAudio, audioTimers >>

\* ------------------------------------------------------ the other intents
\* the Clear button without the persist effect
clearHistoryNoPersist ==
  /\ phase = "running"
  /\ history' = <<>>
  /\ last' = OtherEvent
  /\ UNCHANGED << value, data, err, loading, favorites, mobileTab,
                  selectedMeaningIndex, inflight, store, queued, phase, now,
                  copiedText, timers, autoPlayAudio, audioTimers >>

\* the Clear button clearing the favorites as well
clearHistoryAndFavorites ==
  /\ phase = "running"
  /\ history' = <<>>
  /\ favorites' = <<>>
  /\ store' = [ history   |-> Some(stringifyHistory(history')),
                favorites |-> Some(stringifyFavorites(favorites')) ]
  /\ last' = ClearEvent
  /\ UNCHANGED << value, data, err, loading, mobileTab,
                  selectedMeaningIndex, inflight, queued, phase, now,
                  copiedText, timers, autoPlayAudio, audioTimers >>

\* the Clear button of the history sidebar: setHistory([])
clearHistory ==
  /\ phase = "running"
  /\ history' = <<>>
  /\ store' = [store EXCEPT !.history = Some(stringifyHistory(history'))]
  /\ last' = ClearEvent
  /\ UNCHANGED << value, data, err, loading, favorites, mobileTab,
                  selectedMeaningIndex, inflight, queued, phase, now,
                  copiedText, timers, autoPlayAudio, audioTimers >>

\* a part-of-speech tab, shown when the first entry has several meanings
selectMeaning(idx) ==
  /\ phase = "running"
  /\ data.some
  /\ Len(data.val[1].meanings) > 1
  /\ idx \in 0..(Len(data.val[1].meanings) - 1)
  /\ idx # selectedMeaningIndex
  /\ selectedMeaningIndex' = idx
  /\ last' = OtherEvent
  /\ UNCHANGED << value, data, err, loading, history, favorites, mobileTab,
                  inflight, store, queued, phase, now,
                  copiedText, timers, autoPlayAudio, audioTimers >>

\* the panel switch
setMobileTab(t) ==
  /\ phase = "running"
  /\ t # mobileTab
  /\ mobileTab' = t
  /\ last' = OtherEvent
  /\ UNCHANGED << value, data, err, loading, history, favorites,
                  selectedMeaningIndex, inflight, store, queued, phase, now,
                  copiedText, timers, autoPlayAudio, audioTimers >>

\* ----------------------------------------------------------------- copy
\* the definitions on screen, each with its copy button
shownDefinitions ==
  IF hasEntry /\ selectedMeaningIndex < Len(data.val[1].meanings)
    THEN data.val[1].meanings[selectedMeaningIndex + 1].definitions
    ELSE <<>>

\* last: copyToClipboard(text) ran, or one of its timeouts did
CopyEvent(op, text) == [ OtherEvent EXCEPT !.op = op, !.word = text ]

\* copyToClipboard leaving out setTimeout
copyToClipboardNoTimer(text) ==
  /\ phase = "running"
  /\ Len(timers) < MaxTimers
  /\ copiedText' = Some(text)
  /\ last' = CopyEvent("copyToClipboard", text)
  /\ UNCHANGED << viewState, inflight, store, queued, phase, now, timers,
                  autoPlayAudio, audioTimers >>

\* setCopiedText(text); setTimeout(() => setCopiedText(null), 2000).
\* The timeout is never cancelled; all timeouts have the same delay, so
\* they run in the order they were set.
copyToClipboard(text) ==
  /\ phase = "running"
  /\ Len(timers) < MaxTimers
  /\ copiedText' = Some(text)
  /\ timers' = Append(timers, text)
  /\ last' = CopyEvent("copyToClipboard", text)
  /\ UNCHANGED << viewState, inflight, store, queued, phase, now,
                  autoPlayAudio, audioTimers >>

\* the copy button of the k-th definition on screen
copyClick(k) ==
  /\ k \in 1..Len(shownDefinitions)
  /\ copyToClipboard(shownDefinitions[k].definition)

\* the oldest pending timeout runs: setCopiedText(null)
copyTimeout ==
  /\ phase = "running"
  /\ timers # <<>>
  /\ copiedText' = None
  /\ timers' = Tail(timers)
  /\ last' = CopyEvent("copyTimeout", Head(timers))
  /\ UNCHANGED << viewState, inflight, store, queued, phase, now,
                  autoPlayAudio, audioTimers >>

\* ------------------------------------------------------------- synonyms
\* Set.prototype.add for each string of a list; a Set keeps insertion order
\* and compares strings exactly
RECURSIVE addAll(_, _)
addAll(set, list) ==
  IF list = <<>> THEN set
  ELSE addAll(IF \E k \in 1..Len(set) : set[k] = Head(list) THEN set
                                                               ELSE Append(set, Head(list)),
              Tail(list))

\* meaning.definitions.forEach(def => def.synonyms?.forEach(add))
RECURSIVE addDefinitions(_, _)
addDefinitions(set, definitions) ==
  IF definitions = <<>> THEN set
  ELSE addDefinitions(addAll(set, Head(definitions).synonyms), Tail(definitions))

\* data[0].meanings.forEach: the meaning's synonyms, then its definitions'
RECURSIVE addMeanings(_, _)
addMeanings(set, meanings) ==
  IF meanings = <<>> THEN set
  ELSE addMeanings(
         addDefinitions(addAll(set, Head(meanings).synonyms), Head(meanings).definitions),
         Tail(meanings))

\* the synonyms of the first meaning alone
getAllSynonymsFirstMeaning ==
  IF ~hasEntry THEN <<>>
  ELSE addMeanings(<<>>, SubSeq(data.val[1].meanings, 1, 1))

\* Array.from(synonyms), or [] without a first entry
getAllSynonyms ==
  IF ~hasEntry THEN <<>> ELSE addMeanings(<<>>, data.val[1].meanings)

\* the synonym badges on screen: getAllSynonyms().slice(0, 15)
shownSynonyms ==
  SubSeq(getAllSynonyms, 1, IF Len(getAllSynonyms) < 15 THEN Len(getAllSynonyms) ELSE 15)

\* a synonym badge: setValue(syn); searchWord(syn)
synonymClick(k) ==
  /\ phase = "running"
  /\ k \in 1..Len(shownSynonyms)
  /\ value' = shownSynonyms[k]
  /\ searchWordCore(shownSynonyms[k])
  /\ mobileTab' = "main"
  /\ last' = CallEvent(shownSynonyms[k])
  /\ UNCHANGED << data, history, favorites, selectedMeaningIndex,
                  store, queued, phase, now,
                  copiedText, timers, autoPlayAudio, audioTimers >>

\* ---------------------------------------------------------------- audio
\* phonetics.find((p) => p.audio && p.audio !== "")?.audio, where a phonetic
\* without audio is one whose audio is ""; "" when there is none
RECURSIVE findAudio(_)
findAudio(phonetics) ==
  IF phonetics = <<>> THEN <<>>
  ELSE IF Head(phonetics).audio # <<>> THEN Head(phonetics).audio
  ELSE findAudio(Tail(phonetics))

\* the audio of the first phonetic, whatever it holds
audioSrcFirstPhonetic(entryData) ==
  LET dataToUse == IF entryData.some THEN entryData ELSE data
  IN  IF ~dataToUse.some \/ dataToUse.val = <<>> THEN <<>>
      ELSE IF dataToUse.val[1].phonetics = <<>> THEN <<>>
      ELSE dataToUse.val[1].phonetics[1].audio

\* const dataToUse = entryData || data; the early return; audioSrc.
\* entryData is None where playAudio() is called without argument.
audioSrc(entryData) ==
  LET dataToUse == IF entryData.some THEN entryData ELSE data
  IN  IF ~dataToUse.some \/ dataToUse.val = <<>> THEN <<>>
      ELSE findAudio(dataToUse.val[1].phonetics)

\* last: playAudio(entryData) ran and handed this URL to an Audio, whose
\* play() was fulfilled or rejected; no URL, no Audio
PlayEvent(entryData, rejected) ==
  [ OtherEvent EXCEPT !.op = "playAudio",
                      !.word = audioSrc(entryData),
                      !.outcome = IF audioSrc(entryData) = <<>> THEN "none"
                                  ELSE IF rejected THEN "rejected" ELSE "played",
                      !.entries = entryData ]

\* playAudio; a rejected play() is logged by its catch
playAudio(entryData, rejected) ==
  /\ last' = PlayEvent(entryData, rejected)
  /\ UNCHANGED << viewState, inflight, store, queued, phase, now,
                  copiedText, timers, autoPlayAudio >>

\* the speaker button of the entry on screen: playAudio()
playClick(rejected) ==
  /\ phase = "running"
  /\ hasEntry
  /\ playAudio(None, rejected)
  /\ UNCHANGED audioTimers

\* the oldest pending autoplay timeout runs: playAudio(result).  All have
\* the same delay, so they run in the order they were set.
autoplayTimeout(rejected) ==
  /\ phase = "running"
  /\ audioTimers # <<>>
  /\ playAudio(Some(Head(audioTimers)), rejected)
  /\ audioTimers' = Tail(audioTimers)

\* the Auto-play switch: onCheckedChange={setAutoPlayAudio}
setAutoPlayAudio(checked) ==
  /\ phase = "running"
  /\ checked # autoPlayAudio
  /\ autoPlayAudio' = checked
  /\ last' = OtherEvent
  /\ UNCHANGED << viewState, inflight, store, queued, phase, now,
                  copiedText, timers, audioTimers >>

\* --------------------------------------------------------- specification
\* toggleFavorite and removeFromFavorites read and write favorites alone;
\* Spec, SpecCap and FairSpec start from stored favorites instead of stepping
\* through them, and SpecFav below steps through them.

\* the page's life cycle
Lifecycle ==
  \/ mountEffects
  \/ rerender
  \/ restart

\* typing into the search box
Typing == \E t \in Terms : setValue(t)

\* the ways a search is issued, and its completion
Issuing ==
  \/ handleSearch
  \/ handleKeyPress
  \/ \E i \in 1..MaxClick : historyItemClick(i)
  \/ \E i \in 1..MaxClick : favoriteItemClick(i)
  \/ \E i \in 1..MaxPending, outcome \in Outcomes : searchWordResume(i, outcome)

\* the intents that start no search
Browsing ==
  \/ clearHistory
  \/ \E idx \in 0..1 : selectMeaning(idx)
  \/ \E t \in Tabs : setMobileTab(t)

Searching == Typing \/ Issuing

Next == tick \/ Lifecycle \/ Searching \/ Browsing

Spec == Init /\ [][Next]_vars

\* searches from the box and the sidebars, clears and restarts over a long
\* stored history
NextCap == Lifecycle \/ Issuing \/ clearHistory

SpecCap == InitCap /\ [][NextCap]_vars

\* searches alone, where every lookup returns and the call waiting for it
\* then runs to its end
NextSearching == Lifecycle \/ Searching

FairSpec ==
  /\ Init
  /\ [][NextSearching]_vars
  /\ WF_vars(\E i \in 1..MaxPending, outcome \in Outcomes : searchWordResume(i, outcome))

\* localStorage as an earlier visit left it with two favorites, the older one
\* saved when the first definition of its word read differently
StaleStore ==
  [ history   |-> Some(stringifyHistory(<<>>)),
    favorites |-> Some(stringifyFavorites(
                    << [word |-> <<"u">>, definition |-> <<"u-noun-1">>, timestamp |-> 0],
                       [word |-> <<"r">>, definition |-> <<"r-old">>, timestamp |-> 0] >>)) ]

InitFav == \E st \in {EmptyStore, StaleStore} : Mounted(st, 0)

\* the favorite button and the sidebars: toggles, removals, searches issued
\* from the rows, clears and restarts
NextFav ==
  \/ tick
  \/ Lifecycle
  \/ Issuing
  \/ clearHistory
  \/ toggleFavorite
  \/ \E i \in 1..MaxClick : removeFromFavorites(i)

SpecFav == InitFav /\ [][NextFav]_vars

\* copying definitions while searching from the sidebars, switching
\* meanings and toggling the favorite; every timeout that was set runs
NextCopy ==
  \/ Lifecycle
  \/ Issuing
  \/ toggleFavorite
  \/ \E idx \in 0..1 : selectMeaning(idx)
  \/ \E k \in 1..MaxClick : copyClick(k)
  \/ copyTimeout

SpecCopy ==
  /\ Init
  /\ [][NextCopy]_vars
  /\ WF_vars(copyTimeout)

\* a stored text cut short, as an interrupted or foreign write leaves it
truncated(text) == SubSeq(text, 1, Len(text) - 1)

\* localStorage with one key holding text that JSON.parse rejects, beside a
\* well-formed other key
TruncatedHistoryStore ==
  [ history   |-> Some(truncated(stringifyHistory(
                    << [word |-> <<"r">>, timestamp |-> 0] >>))),
    favorites |-> VisitedStore.favorites ]

TruncatedFavoritesStore ==
  [ history   |-> Some(stringifyHistory(<< [word |-> <<"u">>, timestamp |-> 0] >>)),
    favorites |-> Some(truncated(VisitedStore.favorites.val)) ]

\* the first render over absent, well-formed and malformed stored values
InitStored ==
  \E st \in {EmptyStore, VisitedStore, TruncatedHistoryStore, TruncatedFavoritesStore} :
    Mounted(st, 0)

SpecStored == InitStored /\ [][NextSearching]_vars

\* the lists of at most MaxSyn synonyms that differ in spelling or only in case
RECURSIVE SynLists(_)
SynLists(n) ==
  IF n = 0 THEN { <<>> }
  ELSE SynLists(n - 1) \cup
       { Append(l, w) : l \in { x \in SynLists(n - 1) : Len(x) = n - 1 },
                        w \in { <<"u">>, <<"U">> } }

\* the bodies a lookup of "r" may return: no entry, or an entry of two
\* meanings with synonyms on the meanings and on a definition
SynBodies ==
  { <<>> } \cup
  { << [ word      |-> <<"r">>,
         phonetics |-> <<>>,
         meanings  |-> << [ partOfSpeech |-> "noun",
                            definitions  |-> << [definition |-> <<"r-noun-1">>, synonyms |-> d] >>,
                            synonyms     |-> m1 ],
                          [ partOfSpeech |-> "verb",
                            definitions  |-> <<>>,
                            synonyms     |-> m2 ] >> ] >> :
      m1 \in SynLists(MaxSyn), d \in SynLists(MaxSyn), m2 \in SynLists(MaxSyn) }

\* the component after a first visit in which "r" was searched last and the
\* lookup returned body, over the records of the words searched before
Showing(body, older) ==
  /\ value = <<"r">>
  /\ data = Some(body)
  /\ err = None
  /\ loading = FALSE
  /\ history = << [word |-> <<"r">>, timestamp |-> 0] >> \o older
  /\ favorites = <<>>
  /\ mobileTab = "main"
  /\ selectedMeaningIndex = 0
  /\ inflight = <<>>
  /\ store = [ history   |-> Some(stringifyHistory(history)),
               favorites |-> Some(stringifyFavorites(favorites)) ]
  /\ queued = [history |-> None, favorites |-> None]
  /\ phase = "running"
  /\ now = 0
  /\ copiedText = None
  /\ timers = <<>>
  /\ autoPlayAudio = FALSE
  /\ audioTimers = <<>>
  /\ last = OtherEvent

InitSyn == \E body \in SynBodies : Showing(body, <<>>)

\* following synonyms from one entry to the next
NextSyn ==
  \/ \E k \in 1..(3 * MaxSyn) : synonymClick(k)
  \/ \E i \in 1..MaxPending, outcome \in Outcomes : searchWordResume(i, outcome)
  \/ Lifecycle

SpecSyn == InitSyn /\ [][NextSyn]_vars

\* the lists of at most MaxPhonetics phonetics, with and without audio
RECURSIVE PhoneticLists(_)
PhoneticLists(n) ==
  IF n = 0 THEN { <<>> }
  ELSE PhoneticLists(n - 1) \cup
       { Append(l, [text |-> <<"/r/">>, audio |-> a]) :
           l \in { x \in PhoneticLists(n - 1) : Len(x) = n - 1 },
           a \in { <<>>, <<"a.mp3">>, <<"b.mp3">> } }

\* the bodies a lookup of "r" may return, as far as audio goes
AudioBodies ==
  { << [ word      |-> <<"r">>,
         phonetics |-> p,
         meanings  |-> EntryR.meanings ] >> : p \in PhoneticLists(MaxPhonetics) }

\* "e", whose lookup returns no entry, was searched before "r"
InitAudio ==
  \E body \in AudioBodies : Showing(body, << [word |-> <<"e">>, timestamp |-> 0] >>)

\* the speaker button, the Auto-play switch and searches from the history
\* sidebar, with the autoplay timeouts they set
NextAudio ==
  \/ Lifecycle
  \/ \E i \in 1..MaxClick : historyItemClick(i)
  \/ \E i \in 1..MaxPending, outcome \in Outcomes : searchWordResume(i, outcome)
  \/ \E checked \in BOOLEAN : setAutoPlayAudio(checked)
  \/ \E rejected \in BOOLEAN : playClick(rejected)
  \/ \E rejected \in BOOLEAN : autoplayTimeout(rejected)

SpecAudio == InitAudio /\ [][NextAudio]_vars

\* localStorage after a visit in which "m" and then "d" were searched, words
\* whose entries lack meanings or definitions
SparseStore ==
  [ history   |-> Some(stringifyHistory(
                    << [word |-> <<"d">>, timestamp |-> 0],
                       [word |-> <<"m">>, timestamp |-> 0] >>)),
    favorites |-> VisitedStore.favorites ]

InitSparse == Mounted(SparseStore, 0)

\* the favorite button over whatever the lookups of the sidebar rows return
NextSparse ==
  \/ tick
  \/ Lifecycle
  \/ \E i \in 1..MaxClick : historyItemClick(i)
  \/ \E i \in 1..MaxClick : favoriteItemClick(i)
  \/ \E i \in 1..MaxPending, outcome \in Outcomes : searchWordResume(i, outcome)
  \/ toggleFavorite
  \/ \E i \in 1..MaxClick : removeFromFavorites(i)

SpecSparse == InitSparse /\ [][NextSparse]_vars

\* ------------------------------------------------------------------ claims
\* the spec's own reading of "empty or whitespace-only"
WhitespaceOnly(word) == \A k \in 1..Len(word) : word[k] = " "

resumedOk     == last.op = "resume" /\ last.outcome = "ok"
resumedFailed == last.op = "resume" /\ last.outcome # "ok"

\* positions of the records of a history whose word is w
positionsOf(list, w) == { k \in 1..Len(list) : list[k].word = w }

\* C1: right after the completion of a successful lookup is applied,
\* isLoading is false, error is absent and entries is the non-empty list
\* returned for that term, whatever other searches were issued or completed
\* while it was in flight.  The code clears error only when a search starts.
C1_SuccessState ==
  resumedOk =>
    /\ loading = FALSE
    /\ err = None
    /\ data = Some(ApiBody(requestPath(last.word)))
    /\ data.val # <<>>

\* C2: after a successful search(term) History holds exactly one record for
\* lower(term), at index 0, carrying the time of the completion; a record the
\* word already had (also from another spelling) is gone, and the other
\* records keep their relative order.
C2_RecordAtFront ==
  resumedOk =>
    LET lw     == toLowerCase(last.word)
        others == SelectSeq(last.history, LAMBDA item : item.word # lw)
    IN  /\ history # <<>>
        /\ history[1] = [word |-> lw, timestamp |-> now]
        /\ positionsOf(history, lw) = {1}
        /\ Len(history) - 1 <= Len(others)
        /\ Tail(history) = SubSeq(others, 1, Len(history) - 1)
        /\ Len(others) < HistoryCap => Len(history) = Len(others) + 1

\* a search for "R" completed over a history that held "r" behind another word
C2_Witness ==
  /\ resumedOk
  /\ last.word = <<"R">>
  /\ Len(last.history) = 2
  /\ last.history[2].word = <<"r">>
  /\ last.history[2].timestamp < now

\* C3: when the lookup of search(term) fails, the completion leaves isLoading
\* false, entries absent, error a message containing the term as typed, and
\* the search itself (its call and its completion) leaves History and
\* Favorites as they were.
C3_FailureState ==
  /\ [](resumedFailed =>
          /\ loading = FALSE
          /\ data = None
          /\ err.some
          /\ Contains(err.val, last.word)
          /\ history = last.history
          /\ favorites = last.favorites)
  /\ [][last'.op = "searchWord" => UNCHANGED << history, favorites >>]_vars

\* the lookup of "R" failed with an entry shown and both collections non-empty
C3_Witness ==
  /\ resumedFailed
  /\ last.word = <<"R">>
  /\ last.outcome = "status"
  /\ history # <<>>
  /\ favorites # <<>>

\* C4: search(term) with an empty or whitespace-only term issues no lookup
\* and changes nothing: query, entries, error, isLoading,
\* selectedMeaningIndex, the active panel, History, Favorites and the store.
C4_BlankSearchNoOp ==
  [][(last'.op = "searchWord" /\ WhitespaceOnly(last'.word)) =>
       UNCHANGED << value, data, err, loading, selectedMeaningIndex, mobileTab,
                    history, favorites, inflight, store >>]_vars

\* a whitespace-only search over a state in which every part could have changed
C4_Witness ==
  /\ last.op = "searchWord"
  /\ last.word = <<" ">>
  /\ data.some
  /\ selectedMeaningIndex = 1
  /\ mobileTab = "history"
  /\ history # <<>>
  /\ inflight = <<>>

\* the same with an error shown and a lookup in flight
C4_WitnessEmpty ==
  /\ last.op = "searchWord"
  /\ last.word = <<>>
  /\ inflight # <<>>

\* C5: entries and error are never both present.
C5_Exclusive == ~(data.some /\ err.some)

\* C6: once overlapping searches have all completed, entries/error are the
\* outcome of the lookup that completed last, whichever was issued last, and
\* a successful one is the newest record of History.
C6_LastCompletionWins ==
  (last.op = "resume" /\ inflight = <<>>) =>
    IF last.outcome = "ok"
      THEN /\ data = Some(ApiBody(requestPath(last.word)))
           /\ err = None
           /\ history # <<>>
           /\ history[1].word = toLowerCase(last.word)
      ELSE /\ data = None
           /\ err = Some(notFoundMessage(last.word))

\* C7: isLoading is true only while a lookup is in flight.
C7_LoadingOnlyInFlight == loading => inflight # <<>>

\* the last lookup in flight failed and left the flag cleared
C7_Witness ==
  /\ resumedFailed
  /\ inflight = <<>>
  /\ ~loading

\* C8: every search that got past the empty-term check and whose lookup
\* returns (2xx, another status, a transport or a parse error) ends by
\* setting isLoading to false, in the step in which the call finishes; so
\* isLoading never stays true.
C8_FinallyClearsLoading ==
  /\ [][last'.op = "resume" =>
          /\ loading' = FALSE
          /\ Len(inflight') = Len(inflight) - 1]_vars
  /\ (loading ~> ~loading)

\* a lookup ended in a parse error while another was in flight
C8_Witness ==
  /\ resumedFailed
  /\ last.outcome = "parse"
  /\ inflight # <<>>
  /\ ~loading

\* C9: History never holds more than 50 records, through searches, clears
\* and restarts; recording a word that is new to a full History keeps the new
\* record and the 49 most recent of the old ones.
C9_Capped ==
  /\ Len(history) <= HistoryCap
  /\ (resumedOk /\ Len(last.history) = HistoryCap
        /\ positionsOf(last.history, toLowerCase(last.word)) = {}) =>
       /\ Len(history) = HistoryCap
       /\ history[1].word = toLowerCase(last.word)
       /\ Tail(history) = SubSeq(last.history, 1, HistoryCap - 1)

\* a 51st word was recorded and the oldest record dropped
C9_Witness ==
  /\ resumedOk
  /\ Len(last.history) = HistoryCap
  /\ positionsOf(last.history, toLowerCase(last.word)) = {}
  /\ positionsOf(history, last.history[HistoryCap].word) = {}

\* C10: History holds at most one record per word, compared without regard
\* to case, and is ordered most recent first.
C10_DistinctAndOrdered ==
  \A i, j \in 1..Len(history) :
    i < j => /\ toLowerCase(history[i].word) # toLowerCase(history[j].word)
             /\ history[i].timestamp >= history[j].timestamp

\* "R" was searched over a history that held "r", and two records remain
C10_Witness ==
  /\ resumedOk
  /\ last.word = <<"R">>
  /\ positionsOf(last.history, <<"r">>) # {}
  /\ Len(history) = 2
  /\ history[1].timestamp > history[2].timestamp

toggledTwice == last.op = "toggleFavorite" /\ last.outcome = "second"

\* two favorites lists with the same words and definitions in the same order
sameIgnoringTime(a, b) ==
  /\ Len(a) = Len(b)
  /\ \A k \in 1..Len(a) : a[k].word = b[k].word /\ a[k].definition = b[k].definition

\* C12 as stated: two toggleFavorite calls in a row on the same loaded word
\* leave Favorites with the words, definitions and order it had before the
\* first call, whether the word was absent, at the front or further down.
C12_ToggleTwiceRestores ==
  (toggledTwice /\ hasEntry) => sameIgnoringTime(favorites, last.earlier)

\* C12: two toggleFavorite calls in a row on the same loaded word restore
\* Favorites (words, definitions, order) when the word was absent before the
\* first call; when the word was present, wherever it stood, they leave its
\* record at the front with the first definition of the entry on screen, and
\* the other records as they were.
C12_ToggleTwiceMovesToFront ==
  (toggledTwice /\ hasEntry) =>
    LET word   == data.val[1].word
        before == last.earlier
        others == SelectSeq(before, LAMBDA f : f.word # word)
    IN  IF \A k \in 1..Len(before) : before[k].word # word
          THEN sameIgnoringTime(favorites, before)
          ELSE /\ favorites # <<>>
               /\ favorites[1].word = word
               /\ favorites[1].definition = data.val[1].meanings[1].definitions[1].definition
               /\ Tail(favorites) = others

\* the word was absent before the two calls
C12_Witness ==
  /\ toggledTwice /\ hasEntry
  /\ last.earlier # <<>>
  /\ \A k \in 1..Len(last.earlier) : last.earlier[k].word # data.val[1].word

\* the word stood second, with an older definition, before the two calls
C12_WitnessMoved ==
  /\ toggledTwice /\ hasEntry
  /\ Len(last.earlier) = 2
  /\ last.earlier[2].word = data.val[1].word
  /\ last.earlier[2].definition # data.val[1].meanings[1].definitions[1].definition
  /\ favorites[1].word = data.val[1].word

\* C13: Favorites never holds two records with exactly the same word,
\* whatever searches, toggles, sidebar removals and restarts took place.
C13_OnePerWord ==
  \A j, k \in 1..Len(favorites) : favorites[j].word = favorites[k].word => j = k

\* the word on screen was just added in front of another word's record that
\* came back from localStorage
C13_Witness ==
  /\ last.op = "toggleFavorite" /\ hasEntry
  /\ Len(last.favorites) = 1
  /\ Len(favorites) = 2
  /\ favorites[1].word = data.val[1].word
  /\ favorites[2].timestamp < favorites[1].timestamp

\* C14: toggleFavorite leaves Favorites unchanged when no entry is loaded;
\* when the loaded word is in Favorites it removes every record with exactly
\* that word and changes no other; otherwise it puts { word, first definition
\* of the first meaning of the first entry, current time } at the front and
\* leaves the others as they were.  A saved definition is never rewritten.
C14_ToggleFavorite ==
  last.op = "toggleFavorite" =>
    LET before == last.favorites IN
    IF ~hasEntry THEN favorites = before
    ELSE LET word == data.val[1].word IN
         IF \E k \in 1..Len(before) : before[k].word = word
           THEN favorites = SelectSeq(before, LAMBDA f : f.word # word)
           ELSE favorites =
                  << [ word       |-> word,
                       definition |-> data.val[1].meanings[1].definitions[1].definition,
                       timestamp  |-> now ] >> \o before

\* a record saved with an older definition is on screen again and is toggled:
\* it is removed, the other record stays
C14_Witness ==
  /\ last.op = "toggleFavorite" /\ hasEntry
  /\ \E k \in 1..Len(last.favorites) :
       /\ last.favorites[k].word = data.val[1].word
       /\ last.favorites[k].definition # data.val[1].meanings[1].definitions[1].definition
  /\ Len(favorites) = 1
  /\ favorites[1].word # data.val[1].word

\* a word not yet saved is toggled at a later time than the saved records
C14_WitnessAdded ==
  /\ last.op = "toggleFavorite" /\ hasEntry
  /\ last.favorites # <<>>
  /\ Len(favorites) = Len(last.favorites) + 1
  /\ favorites[1].timestamp = 1

\* toggleFavorite runs with no entry loaded
C14_WitnessNoEntry ==
  /\ last.op = "toggleFavorite" /\ ~hasEntry
  /\ favorites # <<>>

\* what startup is to make of a stored value: the parsed list, or the empty
\* list where the value is absent or JSON.parse rejects it
loadedOrEmpty(item) ==
  IF truthy(item) /\ JSONparse(item.val).ok THEN JSONparse(item.val).val ELSE <<>>

\* C15: startup never aborts over a stored value; once it has finished, a
\* collection whose stored value was absent or unparsable is empty, and the
\* other collection holds what its own stored value parses to.  The load
\* effect calls JSON.parse unguarded.
C15_StartupFailsOpen ==
  /\ phase # "crashed"
  /\ last.op = "rerender" =>
       /\ history = loadedOrEmpty(last.store.history)
       /\ favorites = loadedOrEmpty(last.store.favorites)

\* C16: when the page is closed with a non-empty History and a non-empty
\* Favorites on screen and opened again, the collections are the same once
\* startup has finished, and localStorage holds what it held when the page
\* was closed.
C16_RestartRoundTrip ==
  (last.op = "rerender" /\ last.history # <<>> /\ last.favorites # <<>>) =>
    /\ history = last.history
    /\ favorites = last.favorites
    /\ store = last.store

\* startup has finished over two favorites and a searched word
C16_Witness ==
  /\ last.op = "rerender"
  /\ Len(last.favorites) = 2
  /\ last.history # <<>>
  /\ history # <<>>
  /\ Len(favorites) = 2
  /\ phase = "running"

\* what a read of a key of localStorage gives
readKey(item) == IF truthy(item) THEN JSONparse(item.val) ELSE ParseFail

\* C17: while the application runs, what a read of each key returns is the
\* collection in memory: every mutation of History or Favorites has written
\* the whole collection before anything else runs.
C17_StoreFollowsMemory ==
  phase = "running" =>
    /\ readKey(store.history).ok /\ readKey(store.history).val = history
    /\ readKey(store.favorites).ok /\ readKey(store.favorites).val = favorites

\* a search was recorded after a favorite was added
C17_Witness ==
  /\ resumedOk
  /\ history # <<>> /\ history # last.history
  /\ favorites # <<>> /\ favorites[1].timestamp = 1
  /\ readKey(store.history).val = history

\* C18: while the timeout of the latest copy has not run, the marker shows
\* the text of that copy; the timeout of an earlier copy does not clear it.
\* copyToClipboard never cancels a timeout.
C18_LatestCopyKeepsMarker ==
  timers # <<>> => copiedText = Some(timers[Len(timers)])

\* C19: a marker that is set has a timeout pending, and is cleared again
\* whatever the user does meanwhile; it never stays set for ever.
C19_MarkerCleared ==
  /\ [](copiedText.some => timers # <<>>)
  /\ (copiedText.some ~> ~copiedText.some)

\* the timeout of a copy has run and cleared the marker of an entry that is
\* still on screen
C19_Witness ==
  /\ last.op = "copyTimeout"
  /\ copiedText = None
  /\ timers = <<>>
  /\ \E k \in 1..Len(shownDefinitions) : shownDefinitions[k].definition = last.word

\* the record at position k of history is still in history after the step
kept(k) == \E j \in 1..Len(history') : history'[j] = history[k]

\* the step is the completion of a successful lookup that replaces record k
\* by a new record for the same word
replaced(k) ==
  /\ last'.op = "resume" /\ last'.outcome = "ok"
  /\ history[k].word = toLowerCase(last'.word)

\* the step is the completion of a successful lookup of a word that a full
\* History did not hold, and record k is the oldest one
truncatedAtCap(k) ==
  /\ last'.op = "resume" /\ last'.outcome = "ok"
  /\ Len(history) = HistoryCap
  /\ k = HistoryCap
  /\ \A m \in 1..Len(history) : history[m].word # toLowerCase(last'.word)

\* C20 as stated: while the application runs a record leaves History only
\* through the bulk clear, or by being replaced when its own word is searched
\* again; a successful search removes no record of another word.
C20_OnlyClearRemoves ==
  [][ (phase = "running" /\ phase' = "running") =>
        \A k \in 1..Len(history) :
          kept(k) \/ last'.op = "clearHistory" \/ replaced(k) ]_vars

\* C20: while the application runs a record leaves History only through the
\* bulk clear, by being replaced when its own word is searched again, or, for
\* the oldest record of a full History, when a word not yet in History is
\* searched successfully; otherwise a successful search removes no record of
\* another word.
C20_OnlyClearOrCapRemoves ==
  [][ (phase = "running" /\ phase' = "running") =>
        \A k \in 1..Len(history) :
          kept(k) \/ last'.op = "clearHistory" \/ replaced(k) \/ truncatedAtCap(k) ]_vars

\* a new word was recorded into a full History: the oldest record is gone,
\* every other record is still there
C20_Witness ==
  /\ resumedOk
  /\ Len(last.history) = HistoryCap
  /\ \A m \in 1..HistoryCap : last.history[m].word # toLowerCase(last.word)
  /\ \A j \in 1..Len(history) : history[j] # last.history[HistoryCap]
  /\ \A m \in 1..(HistoryCap - 1) : \E j \in 1..Len(history) : history[j] = last.history[m]

\* every synonym list of the first entry, in traversal order: for each
\* meaning its own list, then the lists of its definitions
RECURSIVE listsOfDefinitions(_)
listsOfDefinitions(definitions) ==
  IF definitions = <<>> THEN <<>>
  ELSE Head(definitions).synonyms \o listsOfDefinitions(Tail(definitions))

RECURSIVE listsOfMeanings(_)
listsOfMeanings(meanings) ==
  IF meanings = <<>> THEN <<>>
  ELSE Head(meanings).synonyms \o listsOfDefinitions(Head(meanings).definitions)
         \o listsOfMeanings(Tail(meanings))

firstSeen(list, w) == CHOOSE k \in 1..Len(list) : list[k] = w /\ \A j \in 1..(k - 1) : list[j] # w

\* C21: for the first loaded entry getAllSynonyms returns exactly the strings
\* found in a meaning's or a definition's synonym list, none twice, ordered
\* by where each is first met when the meanings are walked in order with a
\* meaning's own list before those of its definitions; strings that differ
\* only in case are kept apart; without an entry it returns the empty list.
C21_AllSynonyms ==
  LET result == getAllSynonyms
      all    == IF data.some /\ data.val # <<>> THEN listsOfMeanings(data.val[1].meanings)
                                                 ELSE <<>>
  IN  /\ \A k \in 1..Len(all) : \E j \in 1..Len(result) : result[j] = all[k]
      /\ \A j \in 1..Len(result) : \E k \in 1..Len(all) : all[k] = result[j]
      /\ \A i, j \in 1..Len(result) : result[i] = result[j] => i = j
      /\ \A i, j \in 1..Len(result) :
           i < j => firstSeen(all, result[i]) < firstSeen(all, result[j])

\* a badge of an entry was clicked whose lists repeat a synonym and spell
\* another one in the other case, the definition's list bringing a string
\* before the second meaning repeats it
C21_Witness ==
  /\ last.op = "searchWord"
  /\ data.some /\ data.val # <<>>
  /\ Len(data.val[1].meanings) = 2
  /\ data.val[1].meanings[1].synonyms = << <<"u">> >>
  /\ data.val[1].meanings[1].definitions[1].synonyms = << <<"u">>, <<"U">> >>
  /\ data.val[1].meanings[2].synonyms = << <<"U">>, <<"u">> >>
  /\ getAllSynonyms = << <<"u">>, <<"U">> >>
  /\ last.word = <<"U">>

\* no badge is on screen when the lookup returned no entry
C21_WitnessNoEntry ==
  /\ data = Some(<<>>)
  /\ getAllSynonyms = <<>>

\* the entries a playAudio call works on: those passed in, else those loaded
usedEntries == IF last.entries.some THEN last.entries ELSE data

\* the positions of the phonetics of the first entry that carry an audio URL
withAudio(entries) ==
  IF ~entries.some \/ entries.val = <<>> THEN {}
  ELSE { k \in 1..Len(entries.val[1].phonetics) : entries.val[1].phonetics[k].audio # <<>> }

\* C22: playAudio plays the audio URL of the first phonetic of the first
\* entry that has a non-empty one, taking the entries passed in or else those
\* loaded, and plays nothing when there is no such phonetic or no entry; the
\* call, also when playback is rejected, leaves entries, error, isLoading and
\* the selected meaning as they were.
C22_PlayAudio ==
  /\ [](last.op = "playAudio" =>
          IF withAudio(usedEntries) = {}
            THEN last.outcome = "none"
            ELSE LET k == CHOOSE n \in withAudio(usedEntries) :
                            \A m \in withAudio(usedEntries) : n <= m
                 IN  /\ last.outcome \in {"played", "rejected"}
                     /\ last.word = usedEntries.val[1].phonetics[k].audio)
  /\ [][last'.op = "playAudio" =>
          UNCHANGED << data, err, loading, selectedMeaningIndex >>]_vars

\* the speaker button played the second phonetic's audio, the first having
\* none, and playback was rejected
C22_Witness ==
  /\ last.op = "playAudio" /\ last.outcome = "rejected"
  /\ ~last.entries.some
  /\ Len(data.val[1].phonetics) = 2
  /\ data.val[1].phonetics[1].audio = <<>>
  /\ last.word = data.val[1].phonetics[2].audio

\* an autoplay timeout played the audio of its own result after a later
\* lookup had failed
C22_WitnessPassed ==
  /\ last.op = "playAudio" /\ last.outcome = "played"
  /\ last.entries.some
  /\ data = None

\* an autoplay timeout ran over a result without entry
C22_WitnessNoEntry ==
  /\ last.op = "playAudio" /\ last.outcome = "none"
  /\ last.entries = Some(<<>>)

\* C23: the completion of a successful lookup sets a timeout for playing its
\* own result exactly when the autoplay preference is on at that moment,
\* also when the preference was switched while the lookup was in flight; a
\* failed lookup and a call of searchWord, blank or not, set none.  The call
\* reads the autoPlayAudio of the render it was made from.
C23_AutoplayAtCompletion ==
  [][ /\ (last'.op = "resume" /\ last'.outcome = "ok") =>
           audioTimers' = IF autoPlayAudio THEN Append(audioTimers, data'.val)
                                           ELSE audioTimers
      /\ (last'.op = "searchWord" \/ (last'.op = "resume" /\ last'.outcome # "ok")) =>
           audioTimers' = audioTimers ]_vars

\* C24: the Clear button empties History and the stored history and leaves
\* Favorites, entries, error, isLoading, the selected meaning and the pending
\* lookups as they were; a lookup that was pending at the clear and succeeds
\* next records its word in the emptied History.
C24_ClearHistory ==
  /\ [][last'.op = "clearHistory" =>
          /\ history' = <<>>
          /\ store'.history = Some(<<"[", "]">>)
          /\ UNCHANGED << favorites, data, err, loading, selectedMeaningIndex, inflight >>
          /\ store'.favorites = store.favorites]_vars
  /\ []((resumedOk /\ last.afterClear) =>
          history = << [word |-> toLowerCase(last.word), timestamp |-> now] >>)

\* a lookup that was pending when a long history was cleared has succeeded
\* and its word is the only record
C24_Witness ==
  /\ resumedOk /\ last.afterClear
  /\ Len(history) = 1
  /\ favorites # <<>>
  /\ store.history = Some(stringifyHistory(history))

\* C25: whenever a lookup is in flight isLoading is true; with two searches
\* overlapping, the completion of one leaves the flag on.  Every completion
\* ends with setLoading(false).
C25_LoadingWhileInFlight == inflight # <<>> => loading

\* C26: from the first render until the loaded collections are in memory,
\* reading either key of localStorage gives what it gave before startup.
\* The persist effects of the first render write the empty collections.
C26_StoreKeptDuringStartup ==
  (last.op = "mountEffects" /\ phase = "loaded") =>
    /\ loadedOrEmpty(store.history) = loadedOrEmpty(last.store.history)
    /\ loadedOrEmpty(store.favorites) = loadedOrEmpty(last.store.favorites)

\* C27: toggleFavorite never ends in an error, whatever entry list a 2xx
\* lookup left on screen; it leaves Favorites as they were or puts one
\* record with a word, a definition and a timestamp at the front.  Reading
\* meanings[0].definitions[0].definition is not guarded.
C27_ToggleNeverThrows ==
  last.op = "toggleFavorite" =>
    /\ ~last.threw
    /\ \/ favorites = last.favorites
       \/ favorites = SelectSeq(last.favorites, LAMBDA f : f.word # data.val[1].word)
       \/ /\ Tail(favorites) = last.favorites
          /\ favorites[1].word = data.val[1].word
          /\ favorites[1].timestamp = now
====
